---- MODULE Spec2Model ----
(***************************************************************************)
(* The interactive prompts of phase2cli (src/phase2cli/src/index.ts):      *)
(* the ceremony builder, the circuit builder and the selectors.            *)
(*                                                                         *)
(* A JavaScript value that may be `undefined` is a set with at most one    *)
(* element: {} is undefined, {v} is the value v.                           *)
(***************************************************************************)
EXTENDS Integers, Sequences, FiniteSets

\* ------------------------------------------------------------- bounds
MaxTicks == 3           \* how far the clock advances during one run
MaxDate == 4            \* latest date answer, in clock units after Epoch
MaxCandidates == 2      \* longest list of dirents or documents a selector gets

\* ---------------------------------------------------- program constants
DayMs == 1000 * 60 * 60 * 24

\* The instant at which the run starts (Date.now() of the first step).
Epoch == 4 * DayMs

\* --------------------------------------------------- JavaScript values
Undefined == {}
Some(v) == {v}
Val(x) == CHOOSE v \in x : TRUE
IsDefined(x) == x # {}

\* x < n, x > n, x <= n, x >= n for a possibly undefined x: a comparison with
\* undefined (NaN after conversion) is false.
JsLt(x, n) == IsDefined(x) /\ Val(x) < n
JsGt(x, n) == IsDefined(x) /\ Val(x) > n
JsLe(x, n) == IsDefined(x) /\ Val(x) <= n
JsGe(x, n) == IsDefined(x) /\ Val(x) >= n

\* !x for a possibly undefined string: undefined and "" are falsy.
FalsyText(x) == x = Undefined \/ x = Some(<<>>)
\* !x for a possibly undefined object (a Date, a document): only undefined.
FalsyObject(x) == x = Undefined

\* ------------------------------------------------------------- errors
GENERIC_DATA_INPUT == "GENERIC_DATA_INPUT"
GENERIC_CIRCUIT_SELECTION == "GENERIC_CIRCUIT_SELECTION"
GENERIC_CEREMONY_SELECTION == "GENERIC_CEREMONY_SELECTION"
NoError == "none"

\* -------------------------------------------------------------- texts
\* A text is a sequence of characters.  The titles the operator may type:
\* the empty one, titles that differ only in case, and titles with one or
\* several spaces between their words.
Titles == {<<>>, <<"A">>, <<"a">>, <<"b">>, <<"A", "a">>,
           <<"a", " ", "A">>, <<"a", " ", " ", "a">>}
Descriptions == {<<>>, <<"d">>}

IsSpace(c) == c = " "
ToLower(c) == IF c = "A" THEN "a" ELSE c

\* extractPrefix: the title case-folded, every run of whitespace collapsed
\* into a single "-".
RECURSIVE extractPrefixFrom(_, _)
extractPrefixFrom(t, i) ==
  IF i > Len(t) THEN <<>>
  ELSE IF IsSpace(t[i])
       THEN IF i > 1 /\ IsSpace(t[i - 1])
            THEN extractPrefixFrom(t, i + 1)
            ELSE <<"-">> \o extractPrefixFrom(t, i + 1)
       ELSE <<ToLower(t[i])>> \o extractPrefixFrom(t, i + 1)
extractPrefix(t) == extractPrefixFrom(t, 1)

\* getCreatedCeremoniesPrefixes: what the store may hold when the run starts.
PrefixSnapshots == {{}, {<<"a">>}, {<<"a", "a">>, <<"a", "-", "a">>}}

\* ------------------------------------------------------------ answers
DateAnswers == {Epoch + d : d \in -1..MaxDate}
NumberAnswers == {-2, -1, 0, 1, 50, 100, 101}

VARIABLES
  fn,                  \* the entry point that runs
  pc,                  \* the prompt that is active, or where the run ended
  now,                 \* Date.now()
  ceremoniesPrefixes,  \* the snapshot fetched at line 74
  title, description, startDate, endDate, confirmation, penalty,
  result,              \* the value returned to the caller, if any
  error,               \* the error showError exited with, if any
  last,                \* the last answer a validator judged
  abandoned,           \* the prompts the operator abandoned
  validatedAt,         \* Date.now() when the start date was accepted
  timeoutMechanismType,               \* askCircuitInputData's argument
  timeoutThreshold, timeoutMaxContributionWaitingTime,
  candidates,          \* a selector's argument (dirents or documents)
  suggestedPowers,     \* askForPtauSelectionFromLocalDir's argument
  choices,             \* the choice list a selector builds
  i,                   \* the candidates a selector's loop has visited
  toggle,              \* what the toggle of askForConfirmation shows
  powers,              \* the answer of askPowersOftau's prompt
  asked                \* the prompts shown so far, in the order they were shown

ceremonyVars == <<ceremoniesPrefixes, title, startDate, endDate, confirmation,
                  penalty, validatedAt>>
circuitVars == <<timeoutMechanismType, timeoutThreshold,
                 timeoutMaxContributionWaitingTime>>
selectVars == <<candidates, suggestedPowers, choices, i>>

vars == <<fn, pc, now, description, result, error, last, abandoned,
          ceremonyVars, circuitVars, selectVars, toggle, powers, asked>>

\* The prompts, by the name of their question.
Prompts == {"title", "description", "startDate", "endDate", "confirmation",
            "penalty", "threshold", "maxContributionWaitingTime", "powers",
            "select"}

\* A prompt that becomes active is shown: it joins the prompts shown so far.
Recorded ==
  asked' = IF pc' # pc /\ pc' \in Prompts THEN Append(asked, pc') ELSE asked

NoAnswer == [q |-> "none", a |-> Undefined, ok |-> TRUE, at |-> Epoch]
Judged(q, a, ok) == [q |-> q, a |-> Some(a), ok |-> ok, at |-> now]

\* showError(err, true): prints the error and exits the process.
showError(err) ==
  /\ pc' = "exited"
  /\ error' = err
  /\ result' = Undefined

\* ------------------------------------------------- askCeremonyInputData
\* validateTitle comparing the title as typed, without extractPrefix.
validateTitleAsTyped(t) ==
  IF Len(t) <= 0 THEN FALSE
  ELSE IF t \in ceremoniesPrefixes THEN FALSE
  ELSE TRUE

validateTitle(t) ==
  IF Len(t) <= 0 THEN FALSE
  ELSE IF extractPrefix(t) \in ceremoniesPrefixes THEN FALSE
  ELSE TRUE

validateDescription(t) == Len(t) > 0

\* validateStartDate accepting the current instant too.
validateStartDateOrNow(d) == d >= now

validateStartDate(d) == d > now

\* validateEndDate accepting the opening instant too.
validateEndDateOrOpening(d) == JsGe(Some(d), Val(startDate))

validateEndDate(d) == JsGt(Some(d), Val(startDate))

validatePenalty(p) == ~(p < 0)

\* askForConfirmation, line 63: what the toggle shows first.
ToggleInitial == FALSE

\* What every entry point starts from.
Started ==
  /\ now = Epoch
  /\ description = Undefined
  /\ result = Undefined
  /\ error = NoError
  /\ last = NoAnswer
  /\ abandoned = {}
  /\ toggle = ToggleInitial
  /\ powers = Undefined

NoCeremonyAnswers ==
  /\ title = Undefined
  /\ startDate = Undefined
  /\ endDate = Undefined
  /\ confirmation = Undefined
  /\ penalty = Undefined
  /\ validatedAt = Undefined

NoCircuitAnswers ==
  /\ timeoutMechanismType = Undefined
  /\ timeoutThreshold = Undefined
  /\ timeoutMaxContributionWaitingTime = Undefined

NoSelection ==
  /\ candidates = <<>>
  /\ suggestedPowers = 0
  /\ choices = <<>>
  /\ i = 0

InitCeremony ==
  /\ fn = "askCeremonyInputData"
  /\ pc = "fetch"
  /\ asked = <<>>
  /\ ceremoniesPrefixes = {}
  /\ Started /\ NoCeremonyAnswers /\ NoCircuitAnswers /\ NoSelection

\* Line 74: the prefixes of the ceremonies created so far are fetched, then
\* the title prompt is shown.
FetchCeremoniesPrefixes ==
  /\ fn = "askCeremonyInputData" /\ pc = "fetch"
  /\ ceremoniesPrefixes' \in PrefixSnapshots
  /\ pc' = "title"
  /\ UNCHANGED <<circuitVars, selectVars, fn, toggle, powers, now, title,
                 description, startDate, endDate, confirmation, penalty,
                 result, error, last, abandoned, validatedAt>>
  /\ Recorded

\* CheckFirstQuestions without the check of line 110.
SkipFirstQuestionsCheck(t, d, s) ==
  /\ pc' = "endDate"
  /\ UNCHANGED <<error, result>>

\* Line 110, after the first three prompts ended (answered or abandoned).
CheckFirstQuestions(t, d, s) ==
  IF FalsyText(t) \/ FalsyText(d) \/ FalsyObject(s)
  THEN showError(GENERIC_DATA_INPUT)
  ELSE /\ pc' = "endDate"
       /\ UNCHANGED <<error, result>>

SubmitTitle(t) ==
  /\ fn = "askCeremonyInputData" /\ pc = "title"
  /\ last' = Judged("title", t, validateTitle(t))
  /\ IF validateTitle(t)
     THEN title' = Some(t) /\ pc' = "description"
     ELSE UNCHANGED <<title, pc>>
  /\ UNCHANGED <<circuitVars, selectVars, fn, toggle, powers, now,
                 ceremoniesPrefixes, description, startDate, endDate,
                 confirmation, penalty, result, error, abandoned,
                 validatedAt>>
  /\ Recorded

\* SubmitCeremonyDescription giving up on a rejected answer.
SubmitCeremonyDescriptionOnce(t) ==
  /\ fn = "askCeremonyInputData" /\ pc = "description"
  /\ last' = Judged("description", t, validateDescription(t))
  /\ IF validateDescription(t)
     THEN description' = Some(t) /\ pc' = "startDate"
                                /\ UNCHANGED <<error, result>>
     ELSE UNCHANGED description /\ showError(GENERIC_DATA_INPUT)
  /\ UNCHANGED <<circuitVars, selectVars, fn, toggle, powers, now,
                 ceremoniesPrefixes, title, startDate, endDate,
                 confirmation, penalty, abandoned, validatedAt>>
  /\ Recorded

SubmitCeremonyDescription(t) ==
  /\ fn = "askCeremonyInputData" /\ pc = "description"
  /\ last' = Judged("description", t, validateDescription(t))
  /\ IF validateDescription(t)
     THEN description' = Some(t) /\ pc' = "startDate"
     ELSE UNCHANGED <<description, pc>>
  /\ UNCHANGED <<circuitVars, selectVars, fn, toggle, powers, now,
                 ceremoniesPrefixes, title, startDate, endDate, confirmation,
                 penalty, result, error, abandoned, validatedAt>>
  /\ Recorded

SubmitStartDate(d) ==
  /\ fn = "askCeremonyInputData" /\ pc = "startDate"
  /\ last' = Judged("startDate", d, validateStartDate(d))
  /\ IF validateStartDate(d)
     THEN /\ startDate' = Some(d)
          /\ validatedAt' = Some(now)
          /\ CheckFirstQuestions(title, description, Some(d))
     ELSE UNCHANGED <<startDate, validatedAt, pc, error, result>>
  /\ UNCHANGED <<circuitVars, selectVars, fn, toggle, powers, now,
                 ceremoniesPrefixes, title, description, endDate,
                 confirmation, penalty, abandoned>>
  /\ Recorded

\* The operator abandons one of the three prompts of the array at line 108:
\* prompts() stops asking and returns the answers it has.
AbandonFirstQuestions ==
  /\ fn = "askCeremonyInputData"
  /\ pc \in {"title", "description", "startDate"}
  /\ abandoned' = abandoned \cup {pc}
  /\ CheckFirstQuestions(title, description, startDate)
  /\ UNCHANGED <<circuitVars, selectVars, fn, toggle, powers, now,
                 ceremoniesPrefixes, title, description, startDate, endDate,
                 confirmation, penalty, last, validatedAt>>
  /\ Recorded

SubmitEndDate(d) ==
  /\ fn = "askCeremonyInputData" /\ pc = "endDate"
  /\ last' = Judged("endDate", d, validateEndDate(d))
  /\ IF validateEndDate(d)
     THEN /\ endDate' = Some(d)
          /\ IF FalsyObject(Some(d))
             THEN showError(GENERIC_DATA_INPUT)
             ELSE pc' = "confirmation" /\ UNCHANGED <<error, result>>
     ELSE UNCHANGED <<endDate, pc, error, result>>
  /\ UNCHANGED <<circuitVars, selectVars, fn, toggle, powers, now,
                 ceremoniesPrefixes, title, description, startDate,
                 confirmation, penalty, abandoned, validatedAt>>
  /\ Recorded

\* AbandonEndDate without the check of line 122.
AbandonEndDateUnchecked ==
  /\ fn = "askCeremonyInputData" /\ pc = "endDate"
  /\ abandoned' = abandoned \cup {"endDate"}
  /\ pc' = "confirmation" /\ UNCHANGED <<error, result>>
  /\ UNCHANGED <<circuitVars, selectVars, fn, toggle, powers, now,
                 ceremoniesPrefixes, title, description, startDate, endDate,
                 confirmation, penalty, last, validatedAt>>
  /\ Recorded

AbandonEndDate ==
  /\ fn = "askCeremonyInputData" /\ pc = "endDate"
  /\ abandoned' = abandoned \cup {"endDate"}
  /\ IF FalsyObject(endDate)
     THEN showError(GENERIC_DATA_INPUT)
     ELSE pc' = "confirmation" /\ UNCHANGED <<error, result>>
  /\ UNCHANGED <<circuitVars, selectVars, fn, toggle, powers, now,
                 ceremoniesPrefixes, title, description, startDate, endDate,
                 confirmation, penalty, last, validatedAt>>
  /\ Recorded

\* askForConfirmation: a toggle, no validator.  The operator switches it
\* between inactive (false) and active (true) ...
FlipToggle ==
  /\ fn = "askCeremonyInputData" /\ pc = "confirmation"
  /\ toggle' = ~toggle
  /\ UNCHANGED <<ceremonyVars, circuitVars, selectVars, fn, pc, powers, now,
                 description, result, error, last, abandoned>>
  /\ Recorded

\* ... and submits what it shows.
SubmitConfirmation ==
  /\ fn = "askCeremonyInputData" /\ pc = "confirmation"
  /\ confirmation' = Some(toggle)
  /\ pc' = "penalty"
  /\ UNCHANGED <<circuitVars, selectVars, fn, toggle, powers, now,
                 ceremoniesPrefixes, title, description, startDate, endDate,
                 penalty, result, error, last, abandoned, validatedAt>>
  /\ Recorded

AbandonConfirmation ==
  /\ fn = "askCeremonyInputData" /\ pc = "confirmation"
  /\ abandoned' = abandoned \cup {"confirmation"}
  /\ pc' = "penalty"
  /\ UNCHANGED <<circuitVars, selectVars, fn, toggle, powers, now,
                 ceremoniesPrefixes, title, description, startDate, endDate,
                 confirmation, penalty, result, error, last, validatedAt>>
  /\ Recorded

timeoutTypeOf(c) == IF c = Some(TRUE) THEN "DYNAMIC" ELSE "FIXED"

\* Lines 142-151, after the penalty prompt ended with answer p.
ReturnCeremony(p) ==
  IF JsLt(p, 0)
  THEN showError(GENERIC_DATA_INPUT)
  ELSE /\ pc' = "returned"
       /\ result' = Some([title |-> title,
                          description |-> description,
                          startDate |-> startDate,
                          endDate |-> endDate,
                          timeoutMechanismType |-> timeoutTypeOf(confirmation),
                          penalty |-> p])
       /\ UNCHANGED error

SubmitPenalty(p) ==
  /\ fn = "askCeremonyInputData" /\ pc = "penalty"
  /\ last' = Judged("penalty", p, validatePenalty(p))
  /\ IF validatePenalty(p)
     THEN penalty' = Some(p) /\ ReturnCeremony(Some(p))
     ELSE UNCHANGED <<penalty, pc, error, result>>
  /\ UNCHANGED <<circuitVars, selectVars, fn, toggle, powers, now,
                 ceremoniesPrefixes, title, description, startDate, endDate,
                 confirmation, abandoned, validatedAt>>
  /\ Recorded

AbandonPenalty ==
  /\ fn = "askCeremonyInputData" /\ pc = "penalty"
  /\ abandoned' = abandoned \cup {"penalty"}
  /\ ReturnCeremony(penalty)
  /\ UNCHANGED <<circuitVars, selectVars, fn, toggle, powers, now,
                 ceremoniesPrefixes, title, description, startDate, endDate,
                 confirmation, penalty, last, validatedAt>>
  /\ Recorded

\* -------------------------------------------------- askCircuitInputData
DYNAMIC == "DYNAMIC"
FIXED == "FIXED"

validateCircuitDescription(t) == Len(t) # 0

validateThreshold(n) == ~(n < 0 \/ n > 100)

validateMaxContributionWaitingTime(n) == ~(n <= 0)

\* Lines 173-174: both locals start at 0.
InitCircuit ==
  /\ fn = "askCircuitInputData"
  /\ pc = "description"
  /\ asked = <<"description">>
  /\ timeoutMechanismType \in {DYNAMIC, FIXED}
  /\ timeoutThreshold = Some(0)
  /\ timeoutMaxContributionWaitingTime = Some(0)
  /\ ceremoniesPrefixes = {}
  /\ Started /\ NoCeremonyAnswers /\ NoSelection

\* Lines 176 and 194: the prompt that follows the description.
PolicyPrompt ==
  IF timeoutMechanismType = DYNAMIC THEN "threshold"
  ELSE IF timeoutMechanismType = FIXED THEN "maxContributionWaitingTime"
  ELSE "none"

SubmitCircuitDescription(t) ==
  /\ fn = "askCircuitInputData" /\ pc = "description"
  /\ last' = Judged("description", t, validateCircuitDescription(t))
  /\ IF validateCircuitDescription(t)
     THEN description' = Some(t) /\ pc' = PolicyPrompt
     ELSE UNCHANGED <<description, pc>>
  /\ UNCHANGED <<ceremonyVars, circuitVars, selectVars, fn, toggle, powers,
                 now, result, error, abandoned>>
  /\ Recorded

\* AbandonCircuitDescription failing at once, before the policy prompt.
AbandonCircuitDescriptionAtOnce ==
  /\ fn = "askCircuitInputData" /\ pc = "description"
  /\ abandoned' = abandoned \cup {"description"}
  /\ showError(GENERIC_DATA_INPUT)
  /\ UNCHANGED <<ceremonyVars, circuitVars, selectVars, fn, toggle, powers,
                 now, description, last>>
  /\ Recorded

AbandonCircuitDescription ==
  /\ fn = "askCircuitInputData" /\ pc = "description"
  /\ abandoned' = abandoned \cup {"description"}
  /\ pc' = PolicyPrompt
  /\ UNCHANGED <<ceremonyVars, circuitVars, selectVars, fn, toggle, powers,
                 now, description, result, error, last>>
  /\ Recorded

\* The object literal returned at lines 219-227.
CircuitInputData(tt, tm) ==
  IF timeoutMechanismType = DYNAMIC
  THEN [description |-> description, timeoutThreshold |-> tt]
  ELSE [description |-> description, timeoutMaxContributionWaitingTime |-> tm]

\* Lines 212-227, with the locals timeoutThreshold = tt and
\* timeoutMaxContributionWaitingTime = tm.
ReturnCircuit(tt, tm) ==
  IF \/ FalsyText(description)
     \/ (timeoutMechanismType = DYNAMIC /\ JsLt(tt, 0))
     \/ (timeoutMechanismType = FIXED /\ JsLt(tm, 0))
  THEN showError(GENERIC_DATA_INPUT)
  ELSE /\ pc' = "returned"
       /\ result' = Some(CircuitInputData(tt, tm))
       /\ UNCHANGED error

\* Lines 189-191, after the threshold prompt ended with answer n.
AfterThreshold(n) ==
  IF JsLt(n, 0) \/ JsGt(n, 100)
  THEN showError(GENERIC_DATA_INPUT) /\ UNCHANGED timeoutThreshold
  ELSE /\ timeoutThreshold' = n
       /\ ReturnCircuit(n, timeoutMaxContributionWaitingTime)

SubmitThreshold(n) ==
  /\ fn = "askCircuitInputData" /\ pc = "threshold"
  /\ last' = Judged("threshold", n, validateThreshold(n))
  /\ IF validateThreshold(n)
     THEN AfterThreshold(Some(n))
     ELSE UNCHANGED <<timeoutThreshold, pc, error, result>>
  /\ UNCHANGED <<ceremonyVars, selectVars, fn, toggle, powers, now,
                 description, abandoned, timeoutMechanismType,
                 timeoutMaxContributionWaitingTime>>
  /\ Recorded

AbandonThreshold ==
  /\ fn = "askCircuitInputData" /\ pc = "threshold"
  /\ abandoned' = abandoned \cup {"threshold"}
  /\ AfterThreshold(Undefined)
  /\ UNCHANGED <<ceremonyVars, selectVars, fn, toggle, powers, now,
                 description, last, timeoutMechanismType,
                 timeoutMaxContributionWaitingTime>>
  /\ Recorded

\* Lines 207-209, after the maxContributionWaitingTime prompt ended with n.
AfterMaxContributionWaitingTime(n) ==
  IF JsLe(n, 0)
  THEN showError(GENERIC_DATA_INPUT)
       /\ UNCHANGED timeoutMaxContributionWaitingTime
  ELSE /\ timeoutMaxContributionWaitingTime' = n
       /\ ReturnCircuit(timeoutThreshold, n)

SubmitMaxContributionWaitingTime(n) ==
  /\ fn = "askCircuitInputData" /\ pc = "maxContributionWaitingTime"
  /\ last' = Judged("maxContributionWaitingTime", n,
                    validateMaxContributionWaitingTime(n))
  /\ IF validateMaxContributionWaitingTime(n)
     THEN AfterMaxContributionWaitingTime(Some(n))
     ELSE UNCHANGED <<timeoutMaxContributionWaitingTime, pc, error, result>>
  /\ UNCHANGED <<ceremonyVars, selectVars, fn, toggle, powers, now,
                 description, abandoned, timeoutMechanismType,
                 timeoutThreshold>>
  /\ Recorded

AbandonMaxContributionWaitingTime ==
  /\ fn = "askCircuitInputData" /\ pc = "maxContributionWaitingTime"
  /\ abandoned' = abandoned \cup {"maxContributionWaitingTime"}
  /\ AfterMaxContributionWaitingTime(Undefined)
  /\ UNCHANGED <<ceremonyVars, selectVars, fn, toggle, powers, now,
                 description, last, timeoutMechanismType, timeoutThreshold>>
  /\ Recorded

\* ------------------------------------------------------- the selectors
\* The lists a selector may be called with: every sequence over S of at
\* most MaxCandidates entries.
CandidateLists(S) == UNION {[1..n -> S] : n \in 0..MaxCandidates}

\* Dirents of the circuits and zkeys directories.
FileNames == {<<"x">>, <<"y">>, <<"z">>}
Dirents == {[name |-> f] : f \in FileNames}

\* Dirents of the ptau directory: "pot<digits>.ptau".
Digits == {"0", "1", "2", "3", "4", "5", "6", "7", "8", "9"}
DigitValue(c) ==
  CASE c = "0" -> 0 [] c = "1" -> 1 [] c = "2" -> 2 [] c = "3" -> 3
    [] c = "4" -> 4 [] c = "5" -> 5 [] c = "6" -> 6 [] c = "7" -> 7
    [] c = "8" -> 8 [] c = "9" -> 9
PtauName(digits) == <<"p", "o", "t">> \o digits \o <<".", "p", "t", "a", "u">>
PtauNames == {PtauName(<<>>), PtauName(<<"9">>), PtauName(<<"1", "0">>),
              PtauName(<<"1", "2">>), PtauName(<<"1", "4">>)}
PtauDirents == {[name |-> f] : f \in PtauNames}
SuggestedPowers == {10, 12, 15}

\* extractPoTFromFilename: the number the file name carries, read in
\* decimal; a name that carries none gives NaN (here Undefined).
RECURSIVE DecimalOf(_, _)
DecimalOf(ds, acc) ==
  IF ds = <<>> THEN acc
  ELSE DecimalOf(Tail(ds), 10 * acc + DigitValue(Head(ds)))
IsDigit(c) == c \in Digits
extractPoTFromFilename(f) ==
  LET ds == SelectSeq(f, IsDigit)
  IN  IF ds = <<>> THEN Undefined ELSE Some(DecimalOf(ds, 0))

\* Documents of the ceremonies and circuits collections.
EndDateOffsets == {-3 * DayMs, -1, 0, 1, 3 * DayMs, 3 * DayMs + 1}
CeremonyDocs ==
  {[uid |-> "c", data |-> [title |-> <<"A">>, description |-> <<"d">>,
                           endDate |-> Epoch + o]] : o \in EndDateOffsets}
CircuitDocs ==
  {[uid |-> "k", data |-> [name |-> f, description |-> <<"d">>,
                           sequencePosition |-> n]] :
     f \in {<<"x">>, <<"y">>}, n \in 1..2}

InitSelector(f, lists) ==
  /\ fn = f
  /\ pc = "build"
  /\ asked = <<>>
  /\ candidates \in lists
  /\ choices = <<>>
  /\ i = 0
  /\ ceremoniesPrefixes = {}
  /\ Started /\ NoCeremonyAnswers /\ NoCircuitAnswers

InitSelectors ==
  \/ /\ InitSelector("askForCircuitSelectionFromLocalDir",
                     CandidateLists(Dirents))
     /\ suggestedPowers = 0
  \/ /\ InitSelector("askForZkeySelectionFromLocalDir",
                     CandidateLists(Dirents))
     /\ suggestedPowers = 0
  \/ /\ InitSelector("askForPtauSelectionFromLocalDir",
                     CandidateLists(PtauDirents))
     /\ suggestedPowers \in SuggestedPowers
  \/ /\ InitSelector("askForCeremonySelection", CandidateLists(CeremonyDocs))
     /\ suggestedPowers = 0
  \/ /\ InitSelector("askForCircuitSelectionFromFirebase",
                     CandidateLists(CircuitDocs))
     /\ suggestedPowers = 0

\* LoopStep putting the new choice in front of the others.
LoopStepInFront(push, choice) ==
  /\ pc = "build"
  /\ i < Len(candidates)
  /\ i' = i + 1
  /\ choices' = IF push THEN <<choice>> \o choices ELSE choices
  /\ UNCHANGED <<ceremonyVars, circuitVars, fn, toggle, powers, pc, now,
                 description, result, error, last, abandoned, candidates,
                 suggestedPowers>>
  /\ Recorded

\* The select prompts' `initial`: the choice highlighted first.
SelectInitial == 0

\* One pass of a selector's for loop over candidates[i + 1]: `push` says
\* whether a choice is pushed, `choice` is that choice.
LoopStep(push, choice) ==
  /\ pc = "build"
  /\ i < Len(candidates)
  /\ i' = i + 1
  /\ choices' = IF push THEN Append(choices, choice) ELSE choices
  /\ UNCHANGED <<ceremonyVars, circuitVars, fn, toggle, powers, pc, now,
                 description, result, error, last, abandoned, candidates,
                 suggestedPowers>>
  /\ Recorded

\* The loop is over: the select prompt is shown.
AskSelection ==
  /\ pc = "build"
  /\ i = Len(candidates)
  /\ pc' = "select"
  /\ UNCHANGED <<ceremonyVars, circuitVars, selectVars, fn, toggle, powers,
                 now, description, result, error, last, abandoned>>
  /\ Recorded

\* The lines after the select prompt ended with `answer`.
ReturnSelection(answer, falsy, err) ==
  IF falsy
  THEN showError(err)
  ELSE /\ pc' = "returned"
       /\ result' = answer
       /\ UNCHANGED error

\* SubmitSelection returning the first choice whatever the operator picked.
SubmitFirstChoice(k, err) ==
  /\ pc = "select"
  /\ k \in 1..Len(choices)
  /\ last' = Judged("select", k, TRUE)
  /\ ReturnSelection(Some(choices[1].value),
                     FalsyObject(Some(choices[1].value)), err)
  /\ UNCHANGED <<ceremonyVars, circuitVars, selectVars, fn, toggle, powers,
                 now, description, abandoned>>
  /\ Recorded

\* The operator picks the k-th choice of a select prompt over documents.
SubmitSelection(k, err) ==
  /\ pc = "select"
  /\ k \in 1..Len(choices)
  /\ last' = Judged("select", k, TRUE)
  /\ ReturnSelection(Some(choices[k].value),
                     FalsyObject(Some(choices[k].value)), err)
  /\ UNCHANGED <<ceremonyVars, circuitVars, selectVars, fn, toggle, powers,
                 now, description, abandoned>>
  /\ Recorded

\* The operator abandons the select prompt: the answer is undefined.
AbandonSelection(err) ==
  /\ pc = "select"
  /\ abandoned' = abandoned \cup {"select"}
  /\ ReturnSelection(Undefined, FalsyObject(Undefined), err)
  /\ UNCHANGED <<ceremonyVars, circuitVars, selectVars, fn, toggle, powers,
                 now, description, last>>
  /\ Recorded

\* askForCircuitSelectionFromLocalDir
LocalChoice(dirent) == [title |-> dirent.name, value |-> dirent.name]

BuildCircuitChoice ==
  /\ fn = "askForCircuitSelectionFromLocalDir"
  /\ LoopStep(TRUE, LocalChoice(candidates[i + 1]))
AskCircuit ==
  /\ fn = "askForCircuitSelectionFromLocalDir"
  /\ AskSelection
SubmitCircuit(k) ==
  /\ fn = "askForCircuitSelectionFromLocalDir" /\ pc = "select"
  /\ k \in 1..Len(choices)
  /\ last' = Judged("select", k, TRUE)
  /\ ReturnSelection(Some(choices[k].value),
                     FalsyText(Some(choices[k].value)),
                     GENERIC_CIRCUIT_SELECTION)
  /\ UNCHANGED <<ceremonyVars, circuitVars, selectVars, fn, toggle, powers,
                 now, description, abandoned>>
  /\ Recorded
AbandonCircuit ==
  /\ fn = "askForCircuitSelectionFromLocalDir"
  /\ AbandonSelection(GENERIC_CIRCUIT_SELECTION)

\* askForZkeySelectionFromLocalDir
BuildZkeyChoice ==
  /\ fn = "askForZkeySelectionFromLocalDir"
  /\ LoopStep(TRUE, LocalChoice(candidates[i + 1]))
AskZkey ==
  /\ fn = "askForZkeySelectionFromLocalDir"
  /\ AskSelection
SubmitZkey(k) ==
  /\ fn = "askForZkeySelectionFromLocalDir" /\ pc = "select"
  /\ k \in 1..Len(choices)
  /\ last' = Judged("select", k, TRUE)
  /\ ReturnSelection(Some(choices[k].value),
                     FalsyText(Some(choices[k].value)),
                     GENERIC_CIRCUIT_SELECTION)
  /\ UNCHANGED <<ceremonyVars, circuitVars, selectVars, fn, toggle, powers,
                 now, description, abandoned>>
  /\ Recorded
AbandonZkey ==
  /\ fn = "askForZkeySelectionFromLocalDir"
  /\ AbandonSelection(GENERIC_CIRCUIT_SELECTION)

\* askForPtauSelectionFromLocalDir
\* PtauEligible letting every dirent through.
PtauUnfiltered(dirent) == TRUE

\* PtauEligible asking for strictly more powers than suggested.
PtauAboveSuggested(dirent) ==
  JsGt(extractPoTFromFilename(dirent.name), suggestedPowers)

PtauEligible(dirent) ==
  JsGe(extractPoTFromFilename(dirent.name), suggestedPowers)

validatePtau(value) == JsGe(extractPoTFromFilename(value), suggestedPowers)

BuildPtauChoice ==
  /\ fn = "askForPtauSelectionFromLocalDir"
  /\ LoopStep(PtauEligible(candidates[i + 1]), LocalChoice(candidates[i + 1]))
AskPtau ==
  /\ fn = "askForPtauSelectionFromLocalDir"
  /\ AskSelection
SubmitPtau(k) ==
  /\ fn = "askForPtauSelectionFromLocalDir" /\ pc = "select"
  /\ k \in 1..Len(choices)
  /\ last' = Judged("select", k, validatePtau(choices[k].value))
  /\ IF validatePtau(choices[k].value)
     THEN ReturnSelection(Some(choices[k].value),
                          FalsyText(Some(choices[k].value)),
                          GENERIC_CIRCUIT_SELECTION)
     ELSE UNCHANGED <<pc, result, error>>
  /\ UNCHANGED <<ceremonyVars, circuitVars, selectVars, fn, toggle, powers,
                 now, description, abandoned>>
  /\ Recorded
AbandonPtau ==
  /\ fn = "askForPtauSelectionFromLocalDir"
  /\ AbandonSelection(GENERIC_CIRCUIT_SELECTION)

\* askForCeremonySelection
Abs(n) == IF n < 0 THEN -n ELSE n
\* Math.floor(n / d) for n >= 0 and d > 0.
Floor(n, d) == n \div d

\* Math.ceil(n / d) for n >= 0 and d > 0.
Ceil(n, d) == (n + d - 1) \div d

daysLeftOf(doc) == Ceil(Abs(now - doc.data.endDate), DayMs)
daysLabelOf(doc) ==
  IF now - doc.data.endDate < 0 THEN "days left" ELSE "days gone since closing"

CeremonyChoice(doc) ==
  [title |-> doc.data.title,
   description |-> <<doc.data.description, daysLeftOf(doc), daysLabelOf(doc)>>,
   value |-> doc]

BuildCeremonyChoice ==
  /\ fn = "askForCeremonySelection"
  /\ LoopStep(TRUE, CeremonyChoice(candidates[i + 1]))
AskCeremony ==
  /\ fn = "askForCeremonySelection"
  /\ AskSelection
SubmitCeremony(k) ==
  /\ fn = "askForCeremonySelection"
  /\ SubmitSelection(k, GENERIC_CEREMONY_SELECTION)
AbandonCeremony ==
  /\ fn = "askForCeremonySelection"
  /\ AbandonSelection(GENERIC_CEREMONY_SELECTION)

\* askForCircuitSelectionFromFirebase
FirebaseCircuitChoice(doc) ==
  [title |-> doc.data.name,
   description |-> <<doc.data.sequencePosition, doc.data.description>>,
   value |-> doc]

BuildFirebaseCircuitChoice ==
  /\ fn = "askForCircuitSelectionFromFirebase"
  /\ LoopStep(TRUE, FirebaseCircuitChoice(candidates[i + 1]))
AskFirebaseCircuit ==
  /\ fn = "askForCircuitSelectionFromFirebase"
  /\ AskSelection
SubmitFirebaseCircuit(k) ==
  /\ fn = "askForCircuitSelectionFromFirebase"
  /\ SubmitSelection(k, GENERIC_CIRCUIT_SELECTION)
AbandonFirebaseCircuit ==
  /\ fn = "askForCircuitSelectionFromFirebase"
  /\ AbandonSelection(GENERIC_CIRCUIT_SELECTION)

\* ------------------------------------------------------- askPowersOftau
\* The answers to the powers prompt: around the suggested powers.
PowersAnswers == {9, 10, 11, 12, 13, 15, 16}

validatePowers(value) == value >= suggestedPowers

InitPowers ==
  /\ fn = "askPowersOftau"
  /\ pc = "powers"
  /\ asked = <<"powers">>
  /\ suggestedPowers \in SuggestedPowers
  /\ candidates = <<>> /\ choices = <<>> /\ i = 0
  /\ ceremoniesPrefixes = {}
  /\ Started /\ NoCeremonyAnswers /\ NoCircuitAnswers

\* Lines 251-255, after the prompt ended with answer n.
ReturnPowers(n) ==
  IF JsLt(n, suggestedPowers)
  THEN showError(GENERIC_DATA_INPUT)
  ELSE /\ pc' = "returned"
       /\ result' = Some([powers |-> n])
       /\ UNCHANGED error

SubmitPowers(n) ==
  /\ fn = "askPowersOftau" /\ pc = "powers"
  /\ last' = Judged("powers", n, validatePowers(n))
  /\ IF validatePowers(n)
     THEN powers' = Some(n) /\ ReturnPowers(Some(n))
     ELSE UNCHANGED <<powers, pc, error, result>>
  /\ UNCHANGED <<ceremonyVars, circuitVars, selectVars, fn, toggle, now,
                 description, abandoned>>
  /\ Recorded

AbandonPowers ==
  /\ fn = "askPowersOftau" /\ pc = "powers"
  /\ abandoned' = abandoned \cup {"powers"}
  /\ ReturnPowers(powers)
  /\ UNCHANGED <<ceremonyVars, circuitVars, selectVars, fn, toggle, powers,
                 now, description, last>>
  /\ Recorded

\* ------------------------------------------------------------ the clock
\* Time passes while a prompt waits for the operator.
Tick ==
  /\ pc \notin {"returned", "exited"}
  /\ now < Epoch + MaxTicks
  /\ now' = now + 1
  /\ UNCHANGED <<circuitVars, selectVars, fn, toggle, powers, pc,
                 ceremoniesPrefixes, title, description, startDate, endDate,
                 confirmation, penalty, result, error, last, abandoned,
                 validatedAt>>
  /\ Recorded

Init == InitCeremony \/ InitCircuit \/ InitSelectors \/ InitPowers

\* A select prompt offers at most as many choices as there are candidates.
MaxChoices == MaxCandidates

Next ==
  \/ Tick
  \/ FetchCeremoniesPrefixes
  \/ \E t \in Titles : SubmitTitle(t)
  \/ \E t \in Descriptions : SubmitCeremonyDescription(t)
  \/ \E d \in DateAnswers : SubmitStartDate(d)
  \/ AbandonFirstQuestions
  \/ \E d \in DateAnswers : SubmitEndDate(d)
  \/ AbandonEndDate
  \/ FlipToggle
  \/ SubmitConfirmation
  \/ AbandonConfirmation
  \/ \E p \in NumberAnswers : SubmitPenalty(p)
  \/ AbandonPenalty
  \/ \E t \in Descriptions : SubmitCircuitDescription(t)
  \/ AbandonCircuitDescription
  \/ \E n \in NumberAnswers : SubmitThreshold(n)
  \/ AbandonThreshold
  \/ \E n \in NumberAnswers : SubmitMaxContributionWaitingTime(n)
  \/ AbandonMaxContributionWaitingTime
  \/ BuildCircuitChoice \/ AskCircuit \/ AbandonCircuit
  \/ \E k \in 1..MaxChoices : SubmitCircuit(k)
  \/ BuildZkeyChoice \/ AskZkey \/ AbandonZkey
  \/ \E k \in 1..MaxChoices : SubmitZkey(k)
  \/ BuildPtauChoice \/ AskPtau \/ AbandonPtau
  \/ \E k \in 1..MaxChoices : SubmitPtau(k)
  \/ BuildCeremonyChoice \/ AskCeremony \/ AbandonCeremony
  \/ \E k \in 1..MaxChoices : SubmitCeremony(k)
  \/ BuildFirebaseCircuitChoice \/ AskFirebaseCircuit \/ AbandonFirebaseCircuit
  \/ \E k \in 1..MaxChoices : SubmitFirebaseCircuit(k)
  \/ \E n \in PowersAnswers : SubmitPowers(n)
  \/ AbandonPowers

Spec == Init /\ [][Next]_vars

\* =============================================================== claims
Builders == {"askCeremonyInputData", "askCircuitInputData"}
Selectors == {"askForCircuitSelectionFromLocalDir",
              "askForZkeySelectionFromLocalDir",
              "askForPtauSelectionFromLocalDir",
              "askForCeremonySelection",
              "askForCircuitSelectionFromFirebase"}
Returned(f) == fn = f /\ pc = "returned"
Range(seq) == {seq[k] : k \in 1..Len(seq)}

\* C1: a CircuitInputData returned by askCircuitInputData has, under
\* DYNAMIC, timeoutThreshold set and timeoutMaxContributionWaitingTime
\* absent, and under FIXED the reverse: never both, never neither.
C1_ExactlyOnePolicyField ==
  Returned("askCircuitInputData") =>
    LET r == Val(result)
        has(f) == f \in DOMAIN r /\ IsDefined(r[f])
    IN  /\ timeoutMechanismType = DYNAMIC =>
             /\ has("timeoutThreshold")
             /\ ~has("timeoutMaxContributionWaitingTime")
        /\ timeoutMechanismType = FIXED =>
             /\ has("timeoutMaxContributionWaitingTime")
             /\ ~has("timeoutThreshold")

\* C2: a run of a builder in which the operator abandoned a prompt never
\* returns a value to the caller.
C2_AbandonIsFatal ==
  (fn \in Builders /\ abandoned # {}) => (pc # "returned" /\ result = Undefined)

\* C3: a start date is accepted iff it is after now, an end date iff it is
\* after the start date (an end date equal to the start date is rejected),
\* and a returned CeremonyInputData has startDate < endDate.
C3_DatesOrdered ==
  /\ (fn = "askCeremonyInputData" /\ last.q = "startDate") =>
       /\ last.ok <=> Val(last.a) > last.at
       /\ last.ok => startDate = last.a
  /\ (fn = "askCeremonyInputData" /\ last.q = "endDate") =>
       /\ last.ok <=> Val(last.a) > Val(startDate)
       /\ last.ok => endDate = last.a
  /\ Returned("askCeremonyInputData") =>
       LET r == Val(result)
       IN  /\ IsDefined(r.startDate) /\ IsDefined(r.endDate)
           /\ Val(r.startDate) < Val(r.endDate)

C3_Witness ==
  /\ Returned("askCeremonyInputData")
  /\ Val(endDate) = Val(startDate) + 1

\* C4: a penalty answer is accepted iff it is >= 0, and a returned
\* CeremonyInputData carries a penalty that is a non-negative integer.
C4_PenaltyNonNegative ==
  /\ (fn = "askCeremonyInputData" /\ last.q = "penalty") =>
       (last.ok <=> Val(last.a) >= 0)
  /\ Returned("askCeremonyInputData") =>
       LET r == Val(result)
       IN  IsDefined(r.penalty) /\ Val(r.penalty) \in Nat

\* C5: the choice list of askForPtauSelectionFromLocalDir holds exactly the
\* visited entries whose power level is >= suggestedPowers; with an empty
\* list the selection ends in GENERIC_CIRCUIT_SELECTION; a returned name is
\* one of the eligible entries.
C5_EligibleIn(n) ==
  {j \in 1..n :
     LET pot == extractPoTFromFilename(candidates[j].name)
     IN  IsDefined(pot) /\ Val(pot) >= suggestedPowers}

C5_PtauChoicesAreTheEligible ==
  fn = "askForPtauSelectionFromLocalDir" =>
    /\ Len(choices) = Cardinality(C5_EligibleIn(i))
    /\ {choices[k].value : k \in 1..Len(choices)}
         = {candidates[j].name : j \in C5_EligibleIn(i)}
    /\ pc \in {"select", "returned", "exited"} => i = Len(candidates)
    /\ (pc \in {"returned", "exited"} /\ choices = <<>>) =>
         /\ pc = "exited"
         /\ error = GENERIC_CIRCUIT_SELECTION
         /\ result = Undefined
    /\ pc = "returned" =>
         /\ IsDefined(result)
         /\ Val(result) \in
              {candidates[j].name : j \in C5_EligibleIn(Len(candidates))}

C5_Witness ==
  /\ Returned("askForPtauSelectionFromLocalDir")
  /\ Len(candidates) = 2
  /\ Len(choices) = 1

\* C6: the title prompt rejects a title iff it is empty or its normalized
\* prefix is in the snapshot fetched when the run started, so no returned
\* CeremonyInputData has a title whose prefix is in that snapshot.
C6_TitleUnique ==
  /\ (fn = "askCeremonyInputData" /\ last.q = "title") =>
       (~last.ok <=> \/ Val(last.a) = <<>>
                     \/ extractPrefix(Val(last.a)) \in ceremoniesPrefixes)
  /\ Returned("askCeremonyInputData") =>
       LET r == Val(result)
       IN  /\ IsDefined(r.title)
           /\ Val(r.title) # <<>>
           /\ extractPrefix(Val(r.title)) \notin ceremoniesPrefixes

C6_Witness ==
  /\ Returned("askCeremonyInputData")
  /\ ceremoniesPrefixes # {}
  /\ extractPrefix(Val(title)) # Val(title)

\* C7: a returned CircuitInputData has a non-empty description and its
\* policy field inside its bound: timeoutThreshold an integer in [0,100]
\* under DYNAMIC, timeoutMaxContributionWaitingTime an integer > 0 under
\* FIXED.
C7_CircuitFieldsInBounds ==
  Returned("askCircuitInputData") =>
    LET r == Val(result)
    IN  /\ IsDefined(r.description) /\ Val(r.description) # <<>>
        /\ timeoutMechanismType = DYNAMIC =>
             /\ IsDefined(r.timeoutThreshold)
             /\ Val(r.timeoutThreshold) \in 0..100
        /\ timeoutMechanismType = FIXED =>
             /\ IsDefined(r.timeoutMaxContributionWaitingTime)
             /\ Val(r.timeoutMaxContributionWaitingTime) \in Nat \ {0}

\* C8, as claimed: when a CeremonyInputData is returned, startDate and
\* endDate are both in the future relative to that instant.
C8_DatesInFutureAtReturn ==
  Returned("askCeremonyInputData") =>
    /\ Val(Val(result).startDate) > now
    /\ Val(Val(result).endDate) > now

\* C8, amended: when a CeremonyInputData is returned, startDate is after
\* the instant at which the start date answer was validated, which is not
\* after the instant of the return, and endDate is after startDate.
C8_StartDateAfterItsValidation ==
  Returned("askCeremonyInputData") =>
    /\ IsDefined(validatedAt)
    /\ Val(validatedAt) <= now
    /\ Val(Val(result).startDate) > Val(validatedAt)
    /\ Val(Val(result).endDate) > Val(Val(result).startDate)

C8_Witness ==
  /\ Returned("askCeremonyInputData")
  /\ Val(startDate) <= now

\* C9: a selector returns the full value of the choice the operator picked,
\* which comes from the input; when the operator picks nothing the run ends
\* with GENERIC_CEREMONY_SELECTION for ceremony documents and with
\* GENERIC_CIRCUIT_SELECTION for circuits, zkeys and ptau files, and nothing
\* is returned.
C9_SelectionError ==
  IF fn = "askForCeremonySelection" THEN GENERIC_CEREMONY_SELECTION
  ELSE GENERIC_CIRCUIT_SELECTION

C9_Underlying(c) ==
  IF fn \in {"askForCeremonySelection", "askForCircuitSelectionFromFirebase"}
  THEN c ELSE c.name

C9_SelectorReturnsThePick ==
  fn \in Selectors =>
    /\ pc = "returned" =>
         /\ last.q = "select" /\ last.ok
         /\ Val(last.a) \in 1..Len(choices)
         /\ result = Some(choices[Val(last.a)].value)
         /\ \E j \in 1..Len(candidates) : Val(result) = C9_Underlying(candidates[j])
         /\ fn # "askForPtauSelectionFromLocalDir" =>
              Val(result) = C9_Underlying(candidates[Val(last.a)])
         /\ error = NoError
    /\ (pc \in {"returned", "exited"} /\ ("select" \in abandoned \/ choices = <<>>)) =>
         /\ pc = "exited"
         /\ result = Undefined
         /\ error = C9_SelectionError

C9_Witness ==
  /\ Returned("askForCeremonySelection")
  /\ Len(choices) = 2
  /\ candidates[1] # candidates[2]
  /\ Val(last.a) = 2

\* C10: the day count of a ceremony choice is |now - endDate| in whole days
\* rounded up, labelled "days left" when endDate is in the future and
\* "days gone since closing" otherwise; exactly 3 days ahead reads
\* "3 days left", exactly 3 days behind "3 days gone since closing".
C10_Shown(c, end) ==
  LET diff == IF now > end THEN now - end ELSE end - now
      days == c.description[2]
      label == c.description[3]
  IN  /\ days \in Nat
      /\ days * DayMs >= diff
      /\ (days - 1) * DayMs < diff
      /\ label = (IF end > now THEN "days left" ELSE "days gone since closing")
      /\ end = now + 3 * DayMs => (days = 3 /\ label = "days left")
      /\ end = now - 3 * DayMs => (days = 3 /\ label = "days gone since closing")

C10_DaysShown ==
  [][(fn = "askForCeremonySelection" /\ i' = i + 1) =>
       /\ Len(choices') = i'
       /\ C10_Shown(choices'[i'], candidates[i'].data.endDate)]_vars

C10_Witness ==
  /\ fn = "askForCeremonySelection"
  /\ now = Epoch
  /\ Len(choices) = 2
  /\ candidates[1].data.endDate = Epoch + 3 * DayMs
  /\ choices[1].description = <<candidates[1].data.description, 3, "days left">>
  /\ candidates[2].data.endDate = Epoch - 3 * DayMs
  /\ choices[2].description
       = <<candidates[2].data.description, 3, "days gone since closing">>

\* C11: a value returned by askPowersOftau has powers an integer >=
\* suggestedPowers; an answer below suggestedPowers is rejected by the prompt.
C11_PowersAtLeastSuggested ==
  /\ (fn = "askPowersOftau" /\ last.q = "powers") =>
       (last.ok <=> Val(last.a) >= suggestedPowers)
  /\ Returned("askPowersOftau") =>
       LET r == Val(result)
       IN  IsDefined(r.powers) /\ Val(r.powers) >= suggestedPowers

\* C12: the toggle first shows false; a returned CeremonyInputData is
\* DYNAMIC exactly when the operator's answer to the toggle is true and
\* FIXED exactly when it is false.
C12_ToggleDecidesPolicy ==
  fn = "askCeremonyInputData" =>
    /\ "confirmation" \notin Range(asked) => toggle = FALSE
    /\ confirmation \in {Undefined, Some(toggle)}
    /\ pc = "returned" =>
         LET type == Val(result).timeoutMechanismType
         IN  /\ type = DYNAMIC <=> confirmation = Some(TRUE)
             /\ type = FIXED <=> confirmation = Some(FALSE)

\* C13: when a validator rejects an answer the same question stays active:
\* no other prompt is shown, the answers accepted so far are unchanged, and
\* the run neither exits nor returns.
C13_Answers ==
  <<title, description, startDate, endDate, confirmation, penalty,
    timeoutThreshold, timeoutMaxContributionWaitingTime, powers, validatedAt>>

C13_RejectionKeepsTheQuestion ==
  [][(last' # last /\ ~last'.ok) =>
       /\ pc' = pc /\ pc \in Prompts /\ last'.q = pc
       /\ asked' = asked
       /\ C13_Answers' = C13_Answers
       /\ error' = error /\ result' = result]_vars

C13_Witness ==
  /\ fn = "askCeremonyInputData"
  /\ pc = "endDate"
  /\ last.q = "endDate" /\ ~last.ok
  /\ Val(last.a) = Val(startDate)
  /\ IsDefined(title) /\ IsDefined(description)

\* C14: the ceremony builder fetches the prefixes before any prompt, shows
\* its prompts in the order title, description, startDate, endDate, timeout
\* policy, penalty, has at most one prompt active, and shows a prompt only
\* after the preceding one has been answered.
C14_Order ==
  <<"title", "description", "startDate", "endDate", "confirmation", "penalty">>

C14_Answer(q) ==
  CASE q = "title" -> title [] q = "description" -> description
    [] q = "startDate" -> startDate [] q = "endDate" -> endDate
    [] q = "confirmation" -> confirmation [] q = "penalty" -> penalty

C14_StrictSequence ==
  fn = "askCeremonyInputData" =>
    /\ pc = "fetch" <=> asked = <<>>
    /\ Len(asked) <= Len(C14_Order)
    /\ \A k \in 1..Len(asked) : asked[k] = C14_Order[k]
    /\ pc \in Prompts => pc = asked[Len(asked)]
    /\ \A k \in 2..Len(asked) : IsDefined(C14_Answer(asked[k - 1]))

\* C15: if title, description, startDate or endDate is absent after its
\* prompt, the ceremony builder exits with GENERIC_DATA_INPUT at once: the
\* timeout policy and penalty prompts are never shown, nothing is returned.
C15_AbsentIsFatal ==
  (/\ fn = "askCeremonyInputData"
   /\ abandoned \cap {"title", "description", "startDate", "endDate"} # {}) =>
    /\ pc = "exited"
    /\ error = GENERIC_DATA_INPUT
    /\ result = Undefined
    /\ "confirmation" \notin Range(asked)
    /\ "penalty" \notin Range(asked)

C15_Witness ==
  /\ fn = "askCeremonyInputData"
  /\ "endDate" \in abandoned
  /\ pc = "exited"

\* C16: the endDate prompt is shown only when title, description and
\* startDate are all present, and its validator compares with the startDate
\* that was accepted.
C16_EndDateAfterTheCheck ==
  (fn = "askCeremonyInputData" /\ "endDate" \in Range(asked)) =>
    /\ IsDefined(title) /\ Val(title) # <<>>
    /\ IsDefined(description) /\ Val(description) # <<>>
    /\ IsDefined(startDate)
    /\ abandoned \cap {"title", "description", "startDate"} = {}
    /\ IsDefined(validatedAt) /\ Val(startDate) > Val(validatedAt)
    /\ last.q = "endDate" => (last.ok <=> Val(last.a) > Val(startDate))

C16_Witness ==
  /\ fn = "askCeremonyInputData"
  /\ pc = "confirmation"
  /\ last.q = "endDate" /\ last.ok

\* C17: in the circuit builder an abandoned description prompt is followed
\* by the policy prompt, and the run exits with GENERIC_DATA_INPUT only
\* after that prompt ended; nothing is returned.
C17_MissingDescriptionFoundLate ==
  (fn = "askCircuitInputData" /\ "description" \in abandoned) =>
    /\ asked = <<"description", PolicyPrompt>>
    /\ pc \in {PolicyPrompt, "exited"}
    /\ pc = "exited" =>
         /\ error = GENERIC_DATA_INPUT
         /\ result = Undefined
         /\ \/ PolicyPrompt \in abandoned
            \/ last.q = PolicyPrompt /\ last.ok

C17_Witness ==
  /\ fn = "askCircuitInputData"
  /\ "description" \in abandoned
  /\ pc = "exited"
  /\ last.q = "threshold" /\ last.ok

\* C18: every entry offered by askForPtauSelectionFromLocalDir passes the
\* prompt's validator, which therefore never rejects a pick.
C18_ValidatorNeverRejects ==
  fn = "askForPtauSelectionFromLocalDir" =>
    /\ \A k \in 1..Len(choices) : validatePtau(choices[k].value)
    /\ last.q = "select" => last.ok

C18_Witness ==
  /\ Returned("askForPtauSelectionFromLocalDir")
  /\ Len(choices) = 2
  /\ last.q = "select" /\ Val(last.a) = 2

\* C19: a selector's choice list is its input in input order (for ptau
\* files the eligible entries in input order), the input is never modified,
\* and the choice highlighted first is the first eligible input entry.
RECURSIVE C19_Offered(_)
C19_Offered(n) ==
  IF n = 0 THEN <<>>
  ELSE IF /\ fn = "askForPtauSelectionFromLocalDir"
          /\ n \notin C5_EligibleIn(n)
       THEN C19_Offered(n - 1)
       ELSE Append(C19_Offered(n - 1), C9_Underlying(candidates[n]))

C19_FirstEligible ==
  LET all == IF fn = "askForPtauSelectionFromLocalDir"
             THEN C5_EligibleIn(Len(candidates)) ELSE 1..Len(candidates)
  IN  CHOOSE j \in all : \A k \in all : j <= k

C19_InInputOrder ==
  fn \in Selectors =>
    /\ [k \in 1..Len(choices) |-> choices[k].value] = C19_Offered(i)
    /\ (pc = "select" /\ choices # <<>>) =>
         choices[SelectInitial + 1].value
           = C9_Underlying(candidates[C19_FirstEligible])

C19_ChoicesFollowTheInput ==
  /\ []C19_InInputOrder
  /\ [][candidates' = candidates]_vars

C19_Witness ==
  /\ fn = "askForPtauSelectionFromLocalDir"
  /\ pc = "select"
  /\ Len(candidates) = 2
  /\ Len(choices) = 1
  /\ choices[1].value = candidates[2].name
====
